---- MODULE Spec2Model ----
(***************************************************************************)
(* prebid-cache: the backend governance pipeline.                          *)
(*                                                                         *)
(*   backends/config/config.go   NewBackend, DecorateBackend,              *)
(*                               applyCompression, newBaseBackend,         *)
(*                               getMaxTTLSeconds                          *)
(*   config/config.go            Configuration and its validateAndLog      *)
(*   endpoints/routing/handler.go NewAdminHandler, NewPublicHandler,       *)
(*                               handleCors, handleRateLimiting            *)
(*                                                                         *)
(* The decorators, the snappy wrapper, the raw backends, the endpoint      *)
(* handlers and main() are not part of the sources at hand; where a        *)
(* property needs them they are modelled from the design document and      *)
(* marked so next to their definition.                                     *)
(***************************************************************************)
EXTENDS Integers, Sequences, FiniteSets, TLC

VARIABLES
    cfg,            \* config.Configuration, read once at startup
    phase,          \* position of the startup sequence / process state
    backend,        \* the backends.Backend value: layers, outermost first
    maxTTLSeconds,  \* the ceiling handed to decorators.LimitTTLs
    publicHandler,  \* http.Handler of the public port: routes, middleware,
                    \* and the tollbooth limiter if one was created
    adminHandler,   \* http.Handler of the admin port, likewise
    now,            \* wall clock, in ticks of 1/TicksPerSecond second
    store,          \* raw storage: key -> bytes as handed to the raw backend
    accepted,       \* history: key -> payload of every Put that succeeded
    rlLog,          \* history: rate-limit decisions, in order
    last            \* the most recent request and everything it touched

vars == <<cfg, phase, backend, maxTTLSeconds, publicHandler, adminHandler,
          now, store, accepted, rlLog, last>>

-----------------------------------------------------------------------------
(* Configuration values *)

BackendCassandra == "cassandra"
BackendMemory    == "memory"
BackendMemcache  == "memcache"
BackendAerospike == "aerospike"
BackendRedis     == "redis"
BackendTypes     == {BackendCassandra, BackendMemory, BackendMemcache,
                     BackendAerospike, BackendRedis}

CompressionNone   == "none"
CompressionSnappy == "snappy"

\* a type tag that is none of the above
Unrecognized == "bogus"

\* utils.CASSANDRA_DEFAULT_TTL_SECONDS
CASSANDRA_DEFAULT_TTL_SECONDS == 2400

\* seconds in a minute: the factor of cfg.Backend.Redis.ExpirationMinutes*60
SecondsPerMinute == 60

NoValue == "nil"

\* The Configuration fields the pipeline reads.
MkCfg(bt, ct, ttl, size, nvals, aero, redis, pw, rl, n) ==
    [ BackendType          |-> bt,
      CompressionType      |-> ct,
      MaxTTLSeconds        |-> ttl,
      MaxSize              |-> size,
      MaxNumValues         |-> nvals,
      AerospikeDefaultTTL  |-> aero,
      RedisExpirationMin   |-> redis,
      AllowPublicWrite     |-> pw,
      RateLimitEnabled     |-> rl,
      MaxRequestsPerSecond |-> n ]

-----------------------------------------------------------------------------
(* TTL ceiling resolution *)

\* getMaxTTLSeconds without the "> 0" tests of the backend-level values.
getMaxTTLSeconds_NoZeroTest(c) ==
    LET maxTTL == c.MaxTTLSeconds IN
    CASE c.BackendType = BackendCassandra ->
            IF maxTTL > CASSANDRA_DEFAULT_TTL_SECONDS
            THEN CASSANDRA_DEFAULT_TTL_SECONDS ELSE maxTTL
      [] c.BackendType = BackendAerospike ->
            IF maxTTL > c.AerospikeDefaultTTL
            THEN c.AerospikeDefaultTTL ELSE maxTTL
      [] c.BackendType = BackendRedis ->
            IF maxTTL > c.RedisExpirationMin * SecondsPerMinute
            THEN c.RedisExpirationMin * SecondsPerMinute ELSE maxTTL
      [] OTHER -> maxTTL

getMaxTTLSeconds(c) ==
    LET maxTTL == c.MaxTTLSeconds IN
    CASE c.BackendType = BackendCassandra ->
            IF maxTTL > CASSANDRA_DEFAULT_TTL_SECONDS
            THEN CASSANDRA_DEFAULT_TTL_SECONDS ELSE maxTTL
      [] c.BackendType = BackendAerospike ->
            IF c.AerospikeDefaultTTL > 0 /\ maxTTL > c.AerospikeDefaultTTL
            THEN c.AerospikeDefaultTTL ELSE maxTTL
      [] c.BackendType = BackendRedis ->
            IF c.RedisExpirationMin > 0
               /\ maxTTL > c.RedisExpirationMin * SecondsPerMinute
            THEN c.RedisExpirationMin * SecondsPerMinute ELSE maxTTL
      [] OTHER -> maxTTL

-----------------------------------------------------------------------------
(* Payloads and the snappy block format *)

\* Largest body, in bytes, of a payload a client sends.
MaxBody == 1

\* The content-type prefixes "json" and "xml", as bytes.
JsonTag == <<106, 115, 111, 110>>
XmlTag  == <<120, 109, 108>>

BodyOf(n) == [i \in 1..n |-> 97]

\* A payload is its type prefix followed by the body.
Payloads == { t \o BodyOf(n) : t \in {JsonTag, XmlTag}, n \in 0..MaxBody }

IsPrefix(t, p) == Len(p) >= Len(t) /\ SubSeq(p, 1, Len(t)) = t

\* The content type the metrics decorator reads off the payload's prefix.
ContentType(p) ==
    IF IsPrefix(JsonTag, p) THEN "json"
    ELSE IF IsPrefix(XmlTag, p) THEN "xml"
    ELSE "invalid"

\* snappy.Encode for a block shorter than 17 bytes: the uncompressed length
\* as a uvarint (one byte below 128), then one literal element whose tag
\* byte is (len-1) << 2, then the bytes.  The empty block is the length only.
SnappyEncode(p) ==
    IF Len(p) = 0 THEN <<0>>
    ELSE <<Len(p), (Len(p) - 1) * 4>> \o p

\* snappy.Decode of such a block; Corrupt stands for snappy.ErrCorrupt.
Corrupt == <<-1>>

SnappyDecode(d) ==
    IF Len(d) = 0 THEN Corrupt
    ELSE IF d[1] = 0 THEN (IF Len(d) = 1 THEN <<>> ELSE Corrupt)
    ELSE IF Len(d) < 2 \/ d[2] % 4 # 0 THEN Corrupt
    ELSE LET n == (d[2] \div 4) + 1 IN
         IF n # d[1] \/ Len(d) # n + 2 THEN Corrupt
         ELSE SubSeq(d, 3, Len(d))

-----------------------------------------------------------------------------
(* The decorated backend: a sequence of layers, outermost first.  Each      *)
(* constructor below wraps the backend it is given, so the layer applied    *)
(* last is the head of the sequence and runs first.                         *)

LTTL     == "TTLLimiting"
LMetrics == "MetricsLogging"
LSize    == "SizeLimit"
LSnappy  == "Compression"
LRaw     == "Backend"

Layer(name, arg) == [name |-> name, arg |-> arg]

\* log.Fatalf: the process exits; no backend value is produced.
Fatal == << Layer("fatal", 0) >>

\* decorators.LimitTTLs(delegate, maxTTLSeconds)
LimitTTLs(b, maxTTL) == << Layer(LTTL, maxTTL) >> \o b
\* decorators.LogMetrics(delegate, appMetrics)
LogMetrics(b) == << Layer(LMetrics, 0) >> \o b
\* decorators.EnforceSizeLimit(delegate, maxSize)
EnforceSizeLimit(b, maxSize) == << Layer(LSize, maxSize) >> \o b
\* compression.SnappyCompress(delegate)
SnappyCompress(b) == << Layer(LSnappy, 0) >> \o b

\* applyCompression that wraps the backend whatever the type says.
applyCompression_Always(ct, b) ==
    CASE ct \in {CompressionNone, CompressionSnappy} -> SnappyCompress(b)
      [] OTHER -> Fatal

applyCompression(ct, b) ==
    CASE ct = CompressionNone   -> b
      [] ct = CompressionSnappy -> SnappyCompress(b)
      [] OTHER                  -> Fatal

\* newBaseBackend whose default case falls back to the memory backend.
newBaseBackend_DefaultMemory(bt) == << Layer(LRaw, 0) >>

newBaseBackend(bt) ==
    IF bt \in BackendTypes THEN << Layer(LRaw, 0) >> ELSE Fatal

\* DecorateBackend handing LimitTTLs the global ceiling as configured.
DecorateBackend_GlobalTTL(c, b) ==
    LET b1 == applyCompression(c.CompressionType, b)
        b2 == IF c.MaxSize > 0 THEN EnforceSizeLimit(b1, c.MaxSize) ELSE b1
        b3 == LogMetrics(b2)
        b4 == LimitTTLs(b3, c.MaxTTLSeconds)
    IN  IF b1 = Fatal THEN Fatal ELSE b4

\* DecorateBackend wrapping the metrics first and the size limit around them.
DecorateBackend_SizeAroundMetrics(c, b) ==
    LET b1 == applyCompression(c.CompressionType, b)
        b2 == LogMetrics(b1)
        b3 == IF c.MaxSize > 0 THEN EnforceSizeLimit(b2, c.MaxSize) ELSE b2
        b4 == LimitTTLs(b3, getMaxTTLSeconds(c))
    IN  IF b1 = Fatal THEN Fatal ELSE b4

\* DecorateBackend applying the compression after the size limit.
DecorateBackend_CompressionAroundSize(c, b) ==
    LET b1 == IF c.MaxSize > 0 THEN EnforceSizeLimit(b, c.MaxSize) ELSE b
        b2 == applyCompression(c.CompressionType, b1)
        b3 == LogMetrics(b2)
        b4 == LimitTTLs(b3, getMaxTTLSeconds(c))
    IN  IF b2 = Fatal THEN Fatal ELSE b4

DecorateBackend(c, b) ==
    LET b1 == applyCompression(c.CompressionType, b)
        b2 == IF c.MaxSize > 0 THEN EnforceSizeLimit(b1, c.MaxSize) ELSE b1
        b3 == LogMetrics(b2)
        b4 == LimitTTLs(b3, getMaxTTLSeconds(c))
    IN  IF b1 = Fatal THEN Fatal ELSE b4

\* The names of the layers of a backend value, outermost first.
LayerNames(b) == [i \in 1..Len(b) |-> b[i].name]

-----------------------------------------------------------------------------
(* What each layer does on Put and Get.  The decorators, the snappy         *)
(* wrapper and the raw backends are outside the sources at hand: TTL and    *)
(* size violations are rejected (design document, 4.1 "Failure policy"),    *)
(* metrics are taken from the payload as received, compression encodes on   *)
(* Put and decodes on Get, and the raw backend keeps the bytes verbatim.    *)

ErrNone     == "ok"
ErrTTL      == "ttl exceeds ceiling"
ErrSize     == "payload too large"
ErrBackend  == "backend unavailable"
ErrNotFound == "not found"
ErrCorrupt  == "corrupt"

PutResult(trace, err, by, written, observed) ==
    [trace |-> trace, err |-> err, by |-> by,
     written |-> written, observed |-> observed]

\* r as seen by the caller of layer `name`, which delegated and got r back.
Through(name, r) == [r EXCEPT !.trace = <<name>> \o @]

RECURSIVE ChainPut(_, _, _, _)
ChainPut(b, value, ttl, fail) ==
    IF b = <<>> THEN PutResult(<<>>, ErrBackend, NoValue, <<>>, <<>>)
    ELSE
    LET l == Head(b)
        inner == Tail(b)
    IN  CASE l.name = LTTL ->
               IF l.arg > 0 /\ ttl > l.arg
               THEN PutResult(<<LTTL>>, ErrTTL, LTTL, <<>>, <<>>)
               ELSE Through(LTTL, ChainPut(inner, value, ttl, fail))
          [] l.name = LMetrics ->
               LET r == ChainPut(inner, value, ttl, fail) IN
               [Through(LMetrics, r) EXCEPT !.observed =
                    << [type |-> ContentType(value), size |-> Len(value)] >> \o @]
          [] l.name = LSize ->
               IF Len(value) > l.arg
               THEN PutResult(<<LSize>>, ErrSize, LSize, <<>>, <<>>)
               ELSE Through(LSize, ChainPut(inner, value, ttl, fail))
          [] l.name = LSnappy ->
               Through(LSnappy, ChainPut(inner, SnappyEncode(value), ttl, fail))
          [] l.name = LRaw ->
               IF fail
               THEN PutResult(<<LRaw>>, ErrBackend, LRaw, <<>>, <<>>)
               ELSE PutResult(<<LRaw>>, ErrNone, NoValue, <<value>>, <<>>)
          [] OTHER -> PutResult(<<>>, ErrBackend, NoValue, <<>>, <<>>)

GetResult(trace, err, value) == [trace |-> trace, err |-> err, value |-> value]

RECURSIVE ChainGet(_, _, _, _)
ChainGet(b, key, st, fail) ==
    IF b = <<>> THEN GetResult(<<>>, ErrBackend, <<>>)
    ELSE
    LET l == Head(b)
        inner == Tail(b)
    IN  CASE l.name \in {LTTL, LMetrics, LSize} ->
               Through(l.name, ChainGet(inner, key, st, fail))
          [] l.name = LSnappy ->
               LET r == Through(LSnappy, ChainGet(inner, key, st, fail)) IN
               IF r.err # ErrNone THEN r
               ELSE IF SnappyDecode(r.value) = Corrupt
                    THEN GetResult(r.trace, ErrCorrupt, <<>>)
                    ELSE GetResult(r.trace, ErrNone, SnappyDecode(r.value))
          [] l.name = LRaw ->
               IF fail THEN GetResult(<<LRaw>>, ErrBackend, <<>>)
               ELSE IF key \notin DOMAIN st
                    THEN GetResult(<<LRaw>>, ErrNotFound, <<>>)
                    ELSE GetResult(<<LRaw>>, ErrNone, st[key])
          [] OTHER -> GetResult(<<>>, ErrBackend, <<>>)

-----------------------------------------------------------------------------
(* Routers and middleware.  A handler is the set of routes registered on    *)
(* its httprouter and the middleware wrapped around it, outermost first.    *)

Route(method, path, h) == [method |-> method, path |-> path, handler |-> h]

HIndex   == "IndexHandler"
HStatus  == "StatusEndpoint"
HGet     == "GetHandler"
HVersion == "VersionEndpoint"
HPut     == "PutHandler"

MwRouter    == "Router"
MwCors      == "CORS"
MwRateLimit == "RateLimit"

addReadRoutes(router) ==
    router \cup { Route("GET", "/", HIndex),
                  Route("GET", "/status", HStatus),
                  Route("GET", "/cache", HGet),
                  Route("GET", "/version", HVersion) }

addWriteRoutes(router) == router \cup { Route("POST", "/cache", HPut) }

\* tollbooth.NewLimiter(max, ...): max tokens per second, burst max(1, max),
\* one token bucket per client key, created on the key's first request.
NoLimiter == [exists |-> FALSE, max |-> 0, burst |-> 0, buckets |-> << >>]

NewLimiter(max) ==
    [exists |-> TRUE, max |-> max,
     burst |-> IF max > 1 THEN max ELSE 1, buckets |-> << >>]

\* A handler value: the routes of its router, the middleware around the
\* router (outermost first), and the limiter that middleware holds.
Handler(routes, mw, lim) == [routes |-> routes, mw |-> mw, limiter |-> lim]

NoHandler == Handler({}, <<>>, NoLimiter)

\* cors.New(...).Handler(handler)
handleCors(handler) == [handler EXCEPT !.mw = <<MwCors>> \o @]

\* handleRateLimiting without the test of cfg.Enabled.
handleRateLimiting_Always(next, c) ==
    [next EXCEPT !.mw = <<MwRateLimit>> \o @,
                 !.limiter = NewLimiter(c.MaxRequestsPerSecond)]

\* tollbooth.LimitHandler(limit, next), or next itself when disabled
handleRateLimiting(next, c) ==
    IF ~c.RateLimitEnabled THEN next
    ELSE [next EXCEPT !.mw = <<MwRateLimit>> \o @,
                      !.limiter = NewLimiter(c.MaxRequestsPerSecond)]

NewAdminHandler(c) ==
    Handler(addWriteRoutes(addReadRoutes({})), <<MwRouter>>, NoLimiter)

\* NewPublicHandler registering the write route whatever the flag says.
NewPublicHandler_AlwaysWrite(c) ==
    handleRateLimiting(
        handleCors(Handler(addWriteRoutes(addReadRoutes({})), <<MwRouter>>, NoLimiter)),
        c)

\* NewPublicHandler wrapping the rate limiter first and CORS around it.
NewPublicHandler_CorsOutside(c) ==
    LET router == IF c.AllowPublicWrite
                  THEN addWriteRoutes(addReadRoutes({}))
                  ELSE addReadRoutes({})
    IN  handleCors(handleRateLimiting(Handler(router, <<MwRouter>>, NoLimiter), c))

NewPublicHandler(c) ==
    LET router == IF c.AllowPublicWrite
                  THEN addWriteRoutes(addReadRoutes({}))
                  ELSE addReadRoutes({})
    IN  handleRateLimiting(handleCors(Handler(router, <<MwRouter>>, NoLimiter)), c)

\* limit.SetMessage
RateLimitMessage == "{ \"error\": \"rate limit\" }"

\* Clock resolution: ticks per second.
TicksPerSecond == 2

\* Tokens are counted in units of 1/TicksPerSecond so that the refill of
\* one tick, max/TicksPerSecond tokens, is a whole number.
Min(a, b) == IF a < b THEN a ELSE b

\* rate.Limiter.Allow at time t on the bucket of `key`: refill for the time
\* elapsed, capped at the burst, then take one token if there is one.
Tokens(lim, key, t) ==
    IF key \in DOMAIN lim.buckets
    THEN Min(lim.burst * TicksPerSecond,
             lim.buckets[key].tokens
               + (t - lim.buckets[key].last) * (IF lim.max > 0 THEN lim.max ELSE 0))
    ELSE lim.burst * TicksPerSecond

LimitReached(lim, key, t) == Tokens(lim, key, t) < TicksPerSecond

\* The limiter after the request of `key` at time t was decided.
Taken(lim, key, t) ==
    LET have == Tokens(lim, key, t)
        bucket == IF have >= TicksPerSecond
                  THEN [tokens |-> have - TicksPerSecond, last |-> t]
                  ELSE IF key \in DOMAIN lim.buckets THEN lim.buckets[key]
                  ELSE [tokens |-> have, last |-> t]
    IN  [lim EXCEPT !.buckets =
            [k \in DOMAIN lim.buckets \cup {key} |->
                IF k = key THEN bucket ELSE lim.buckets[k]]]

\* A key that leaves the client address out: one bucket per path.
ClientKey_PathOnly(req) == <<"", req.path>>

\* The key tollbooth limits by: the client address taken from
\* X-Forwarded-For / X-Real-IP (SetIPLookups), and the request path.  A
\* request carrying neither header has no key and is not limited.
ClientKey(req) == <<req.ip, req.path>>

\* httprouter: the handler registered for method and path, else 405 when
\* the path is registered for another method, else 404.
Dispatch(routes, method, path) ==
    IF \E r \in routes : r.method = method /\ r.path = path
    THEN (CHOOSE r \in routes : r.method = method /\ r.path = path).handler
    ELSE IF \E r \in routes : r.path = path THEN "405" ELSE "404"

-----------------------------------------------------------------------------
(* Serving one request *)

Request(method, path, ip, key, payload, ttl, fail) ==
    [method |-> method, path |-> path, ip |-> ip, key |-> key,
     payload |-> payload, ttl |-> ttl, fail |-> fail]

\* What one request did: the components it reached in order, the response,
\* what the backend chain reported, and the limiter it left behind.
Response(trace, status, body, lim) ==
    [trace |-> trace, status |-> status, body |-> body, value |-> <<>>,
     err |-> ErrNone, by |-> NoValue, written |-> <<>>, observed |-> <<>>,
     lim |-> lim, rl |-> <<>>]

\* endpoints.NewPutHandler / NewGetHandler and the static endpoints, bound
\* to the decorated backend b.  (The endpoints are outside the sources at
\* hand: one value per write, a server-generated key.)
RouterServe(routes, b, st, req, lim) ==
    LET h == Dispatch(routes, req.method, req.path) IN
    CASE h = HPut ->
           LET r == ChainPut(b, req.payload, req.ttl, req.fail) IN
           [Response(<<MwRouter, HPut>> \o r.trace,
                     IF r.err = ErrNone THEN 200
                     ELSE IF r.err \in {ErrTTL, ErrSize} THEN 400 ELSE 500,
                     r.err, lim)
              EXCEPT !.err = r.err, !.by = r.by, !.written = r.written,
                     !.observed = r.observed]
      [] h = HGet ->
           LET r == ChainGet(b, req.key, st, req.fail) IN
           [Response(<<MwRouter, HGet>> \o r.trace,
                     IF r.err = ErrNone THEN 200
                     ELSE IF r.err = ErrNotFound THEN 404 ELSE 500,
                     r.err, lim)
              EXCEPT !.err = r.err, !.value = r.value]
      [] h \in {HIndex, HStatus, HVersion} ->
           Response(<<MwRouter, h>>, 200, h, lim)
      [] h = "405" -> Response(<<MwRouter>>, 405, "method not allowed", lim)
      [] OTHER     -> Response(<<MwRouter>>, 404, "not found", lim)

\* http.Handler.ServeHTTP of a handler with middleware mw, outermost first.
\*   RateLimit  tollbooth.LimitHandler: over the limit, it writes the
\*              message and returns; otherwise it calls the next handler.
\*   CORS       rs/cors: a preflight (OPTIONS) is answered here; any other
\*              request goes on to the next handler.
RECURSIVE ServeHTTP(_, _, _, _, _, _, _)
ServeHTTP(mw, routes, b, st, req, lim, t) ==
    IF mw = <<>> THEN Response(<<>>, 500, "no handler", lim)
    ELSE
    LET m == Head(mw)
        next == Tail(mw)
    IN  CASE m = MwRateLimit ->
               IF req.ip = ""
               THEN Through(MwRateLimit,
                            ServeHTTP(next, routes, b, st, req, lim, t))
               ELSE
               LET key == ClientKey(req)
                   after == Taken(lim, key, t)
               IN  IF LimitReached(lim, key, t)
                   THEN [Response(<<MwRateLimit>>, 429, RateLimitMessage, after)
                           EXCEPT !.rl = << [client |-> <<req.ip, req.path>>,
                                             t |-> t, ok |-> FALSE] >>]
                   ELSE [Through(MwRateLimit,
                                 ServeHTTP(next, routes, b, st, req, after, t))
                           EXCEPT !.rl = << [client |-> <<req.ip, req.path>>,
                                             t |-> t, ok |-> TRUE] >>]
          [] m = MwCors ->
               IF req.method = "OPTIONS"
               THEN Response(<<MwCors>>, 204, "", lim)
               ELSE Through(MwCors, ServeHTTP(next, routes, b, st, req, lim, t))
          [] m = MwRouter -> RouterServe(routes, b, st, req, lim)
          [] OTHER -> Response(<<>>, 500, "no handler", lim)

-----------------------------------------------------------------------------
(* State and actions *)

Keys == {"k1", "k2"}

\* TTLs, in seconds, a client asks for (0: none given).
RequestTTLs == {0, 2500, 3001}

\* Rate-limit decisions recorded, and the last tick of the clock.
MaxLog  == 5
MaxTime == 1

NoRequest == Request("", "", "", NoValue, <<>>, 0, FALSE)

NoLast ==
    [handler |-> "none", req |-> NoRequest, key |-> NoValue, trace |-> <<>>,
     status |-> 0, body |-> "", value |-> <<>>, err |-> ErrNone,
     by |-> NoValue, observed |-> <<>>, wrote |-> FALSE]

Extend(f, k, v) == [x \in DOMAIN f \cup {k} |-> IF x = k THEN v ELSE f[x]]

InitWith(configs) ==
    /\ cfg \in configs
    /\ phase = "start"
    /\ backend = <<>>
    /\ maxTTLSeconds = 0
    /\ publicHandler = NoHandler
    /\ adminHandler = NoHandler
    /\ now = 0
    /\ store = << >>
    /\ accepted = << >>
    /\ rlLog = <<>>
    /\ last = NoLast

\* RequestLimits.validateAndLog: a negative limit is fatal.
RequestLimitsValid(c) ==
    c.MaxTTLSeconds >= 0 /\ c.MaxSize >= 0 /\ c.MaxNumValues >= 0

\* Compression.validateAndLog: anything but "none" and "snappy" is fatal.
CompressionValid(c) == c.CompressionType \in {CompressionNone, CompressionSnappy}

\* Configuration.ValidateAndLog.  Backend.validateAndLog is outside the
\* sources at hand: it may or may not report an error (backendErr).
ValidateAndLog ==
    /\ phase = "start"
    /\ \E backendErr \in BOOLEAN :
         phase' = IF RequestLimitsValid(cfg) /\ ~backendErr /\ CompressionValid(cfg)
                  THEN "validated" ELSE "fatal"
    /\ UNCHANGED <<cfg, backend, maxTTLSeconds, publicHandler, adminHandler,
                   now, store, accepted, rlLog, last>>

\* NewBackend, first half: newBaseBackend.  The constructor of a network
\* backend may fail (constructed = FALSE), which is fatal as well.
NewBaseBackend ==
    /\ phase = "validated"
    /\ \E constructed \in BOOLEAN :
         LET b == newBaseBackend(cfg.BackendType) IN
         IF b = Fatal \/ (~constructed /\ cfg.BackendType # BackendMemory)
         THEN phase' = "fatal" /\ backend' = backend
         ELSE phase' = "constructed" /\ backend' = b
    /\ UNCHANGED <<cfg, maxTTLSeconds, publicHandler, adminHandler,
                   now, store, accepted, rlLog, last>>

\* NewBackend, second half: DecorateBackend.
Decorate ==
    /\ phase = "constructed"
    /\ LET b == DecorateBackend(cfg, backend) IN
         IF b = Fatal
         THEN phase' = "fatal" /\ UNCHANGED <<backend, maxTTLSeconds>>
         ELSE /\ phase' = "decorated"
              /\ backend' = b
              /\ maxTTLSeconds' = getMaxTTLSeconds(cfg)
    /\ UNCHANGED <<cfg, publicHandler, adminHandler,
                   now, store, accepted, rlLog, last>>

\* The two handlers are built from the decorated backend and the servers
\* start listening.
NewHandlers ==
    /\ phase = "decorated"
    /\ publicHandler' = NewPublicHandler(cfg)
    /\ adminHandler' = NewAdminHandler(cfg)
    /\ phase' = "serving"
    /\ UNCHANGED <<cfg, backend, maxTTLSeconds, now, store, accepted, rlLog, last>>

IsWrite(req) == req.method = "POST" /\ req.path = "/cache"

\* One request on the public or the admin port, start to finish.  newKey
\* is the key the Put handler generates for a write.
Serve(which, req, newKey) ==
    /\ phase = "serving"
    /\ IF IsWrite(req) THEN newKey \in Keys \ DOMAIN store ELSE newKey = NoValue
    /\ LET h == IF which = "public" THEN publicHandler ELSE adminHandler
           r == ServeHTTP(h.mw, h.routes, backend, store, req, h.limiter, now)
           wrote == r.written # <<>>
       IN  /\ Len(rlLog) + Len(r.rl) <= MaxLog
           /\ publicHandler' = IF which = "public"
                               THEN [publicHandler EXCEPT !.limiter = r.lim]
                               ELSE publicHandler
           /\ adminHandler' = IF which = "admin"
                              THEN [adminHandler EXCEPT !.limiter = r.lim]
                              ELSE adminHandler
           /\ rlLog' = rlLog \o r.rl
           /\ store' = IF wrote THEN Extend(store, newKey, r.written[1]) ELSE store
           /\ accepted' = IF wrote THEN Extend(accepted, newKey, req.payload)
                          ELSE accepted
           /\ last' = [handler |-> which, req |-> req,
                       key |-> IF wrote THEN newKey ELSE NoValue,
                       trace |-> r.trace, status |-> r.status, body |-> r.body,
                       value |-> r.value, err |-> r.err, by |-> r.by,
                       observed |-> r.observed, wrote |-> wrote]
    /\ UNCHANGED <<cfg, phase, backend, maxTTLSeconds, now>>

Tick ==
    /\ phase = "serving"
    /\ now < MaxTime
    /\ now' = now + 1
    /\ UNCHANGED <<cfg, phase, backend, maxTTLSeconds, publicHandler,
                   adminHandler, store, accepted, rlLog, last>>

-----------------------------------------------------------------------------
(* Spec: the backend pipeline.  Every backend and compression type, valid   *)
(* and invalid limits; writes of every payload and TTL, reads of every key. *)

PipelineConfigs ==
    { MkCfg(bt, ct, ttl, size, nvals, 1000, 10, TRUE, FALSE, 0) :
        bt \in {BackendMemory, BackendCassandra, BackendAerospike,
                BackendRedis, Unrecognized},
        ct \in {CompressionNone, CompressionSnappy, Unrecognized},
        ttl \in {-1, 0, 3000},
        size \in {-1, 0, 4},
        nvals \in {-1, 10} }

\* Writes and reads arrive on the admin port; the public port is probed.
PipelineTraffic ==
    { <<"admin", Request("POST", "/cache", "a", NoValue, p, ttl, f)>> :
        p \in Payloads, ttl \in RequestTTLs, f \in BOOLEAN }
    \cup { <<"admin", Request("GET", "/cache", "a", k, <<>>, 0, f)>> :
             k \in Keys, f \in BOOLEAN }
    \cup { <<"public", Request("GET", "/status", "a", NoValue, <<>>, 0, FALSE)>> }

Init == InitWith(PipelineConfigs)

Next ==
    \/ ValidateAndLog
    \/ NewBaseBackend
    \/ Decorate
    \/ NewHandlers
    \/ \E tr \in PipelineTraffic, k \in Keys \cup {NoValue} :
          Serve(tr[1], tr[2], k)

Spec == Init /\ [][Next]_vars

-----------------------------------------------------------------------------
(* SpecRoute: routing and rate limiting, over a memory backend.             *)

RouteConfigs ==
    { MkCfg(BackendMemory, CompressionNone, 0, 0, 10, 0, 0, pw, rl, n) :
        pw \in BOOLEAN, rl \in BOOLEAN, n \in {1, 2} }

\* Clients "a" and "b" send X-Forwarded-For; "" sends no address header.
RouteTraffic ==
    { <<"public", Request(mp[1], mp[2], "a", mp[3], mp[4], 0, FALSE)>> :
        mp \in { <<"GET", "/cache", "k1", <<>> >>,
                 <<"POST", "/cache", NoValue, JsonTag>>,
                 <<"OPTIONS", "/cache", NoValue, <<>> >> } }
    \cup { <<"public", Request("GET", "/cache", "b", "k1", <<>>, 0, FALSE)>>,
           <<"public", Request("GET", "/status", "", NoValue, <<>>, 0, FALSE)>>,
           <<"admin", Request("POST", "/cache", "a", NoValue, JsonTag, 0, FALSE)>>,
           <<"admin", Request("GET", "/version", "a", NoValue, <<>>, 0, FALSE)>> }

\* The keys are handed out in order here.
NextKey == IF "k1" \notin DOMAIN store THEN "k1" ELSE "k2"

InitRoute == InitWith(RouteConfigs)

NextRoute ==
    \/ ValidateAndLog
    \/ NewBaseBackend
    \/ Decorate
    \/ NewHandlers
    \/ \E tr \in RouteTraffic, k \in {NextKey, NoValue} :
          Serve(tr[1], tr[2], k)
    \/ Tick

SpecRoute == InitRoute /\ [][NextRoute]_vars

-----------------------------------------------------------------------------
(* SpecTTL: getMaxTTLSeconds on every backend type and TTL setting.         *)

TTLConfigs ==
    { MkCfg(bt, CompressionNone, ttl, 0, 10, aero, redis, TRUE, FALSE, 0) :
        bt \in BackendTypes \cup {Unrecognized},
        ttl \in {-1, 0, 500, 600, 2400, 3000},
        aero \in {-1, 0, 1000, 3600},
        redis \in {-1, 0, 10, 60} }

ResolveTTL ==
    /\ phase = "start"
    /\ maxTTLSeconds' = getMaxTTLSeconds(cfg)
    /\ phase' = "resolved"
    /\ UNCHANGED <<cfg, backend, publicHandler, adminHandler,
                   now, store, accepted, rlLog, last>>

InitTTL == InitWith(TTLConfigs)

NextTTL == ResolveTTL

SpecTTL == InitTTL /\ [][NextTTL]_vars

-----------------------------------------------------------------------------
(* Properties *)

Contains(seq, x) == \E i \in 1..Len(seq) : seq[i] = x

\* Position of the first x in seq (0 when absent).
Index(seq, x) ==
    IF Contains(seq, x) THEN CHOOSE i \in 1..Len(seq) :
                                  seq[i] = x /\ \A j \in 1..(i - 1) : seq[j] # x
    ELSE 0

\* The last request was a write that the Put handler passed to the backend.
PutIssued == last.handler # "none" /\ Contains(last.trace, HPut)

\* The part of the last request's trace that lies inside the backend value.
BackendLayers == {LTTL, LMetrics, LSize, LSnappy, LRaw}
LayerTrace == SelectSeq(last.trace, LAMBDA x : x \in BackendLayers)

(* ---- C1 ---- *)

\* The TTL sources of a configuration: the global ceiling, and the one the
\* backend type brings.
Candidates(c) ==
    {c.MaxTTLSeconds}
    \cup (IF c.BackendType = BackendCassandra
          THEN {CASSANDRA_DEFAULT_TTL_SECONDS} ELSE {})
    \cup (IF c.BackendType = BackendAerospike THEN {c.AerospikeDefaultTTL} ELSE {})
    \cup (IF c.BackendType = BackendRedis
          THEN {c.RedisExpirationMin * SecondsPerMinute} ELSE {})

MinNonZero(S) ==
    LET nz == {x \in S : x # 0} IN
    IF nz = {} THEN 0 ELSE CHOOSE m \in nz : \A x \in nz : m <= x

NonNegativeSources(c) ==
    c.MaxTTLSeconds >= 0 /\ c.AerospikeDefaultTTL >= 0 /\ c.RedisExpirationMin >= 0

TTLOverCeiling == maxTTLSeconds # 0 /\ last.req.ttl > maxTTLSeconds

PayloadOverSize == cfg.MaxSize > 0 /\ Len(last.req.payload) > cfg.MaxSize

SizeRejectedAfterMetrics ==
    /\ last.err = ErrSize
    /\ last.status = 400
    /\ ~Contains(last.trace, LSnappy)
    /\ ~Contains(last.trace, LRaw)
    /\ ~last.wrote
    /\ last.observed = << [type |-> ContentType(last.req.payload),
                           size |-> Len(last.req.payload)] >>
    /\ 0 < Index(last.trace, LMetrics)
    /\ Index(last.trace, LMetrics) < Index(last.trace, LSize)

Decorated == phase \in {"decorated", "serving"}

BadConfig(c) ==
    \/ c.BackendType \notin BackendTypes
    \/ c.CompressionType \notin {CompressionNone, CompressionSnappy}
    \/ c.MaxTTLSeconds < 0
    \/ c.MaxSize < 0
    \/ c.MaxNumValues < 0

\* C8: a configuration with an unrecognized backend or compression type or
\* a negative limit never gets past startup: it serves no request, and the
\* only state it can stop in is the fatal one.  Serving starts only with a
\* constructed and decorated backend.
C8_BadConfigIsFatalAtStartup ==
    /\ BadConfig(cfg) =>
          /\ phase \in {"start", "validated", "fatal"}
          /\ last = NoLast
          /\ (phase = "fatal" \/ ENABLED Next)
    /\ phase = "serving" =>
          /\ Len(backend) >= 3
          /\ backend[1].name = LTTL
          /\ backend[Len(backend)].name = LRaw
    /\ last # NoLast => phase = "serving"

C8_Witness ==
    /\ BadConfig(cfg)
    /\ cfg.BackendType \notin BackendTypes
    /\ RequestLimitsValid(cfg) /\ CompressionValid(cfg)
    /\ phase = "fatal"

(* ---- C9 ---- *)

ExpectedOrder(c) ==
    <<LTTL, LMetrics>>
    \o (IF c.MaxSize > 0 THEN <<LSize>> ELSE <<>>)
    \o (IF c.CompressionType = CompressionSnappy THEN <<LSnappy>> ELSE <<>>)
    \o <<LRaw>>

\* C9: the decorated backend is TTLLimiting, MetricsLogging, SizeLimit (if
\* max_size_bytes > 0), Compression (if snappy), raw backend, from the
\* moment DecorateBackend has run, and every write that no layer rejects
\* runs through exactly these layers in this order.
C9_LayerOrder ==
    /\ Decorated => LayerNames(backend) = ExpectedOrder(cfg)
    /\ (PutIssued /\ last.by \notin {LTTL, LSize})
          => LayerTrace = ExpectedOrder(cfg)

C9_Witness ==
    /\ PutIssued /\ last.wrote
    /\ cfg.MaxSize > 0
    /\ cfg.CompressionType = CompressionSnappy
    /\ Len(LayerTrace) = 5

(* ---- C5 ---- *)

Methods == {"GET", "POST", "OPTIONS", "PUT", "DELETE"}
Paths   == {"/", "/status", "/cache", "/version", "/nope"}

ReadRoutesReachable(h) ==
    /\ Dispatch(h.routes, "GET", "/") = HIndex
    /\ Dispatch(h.routes, "GET", "/status") = HStatus
    /\ Dispatch(h.routes, "GET", "/cache") = HGet
    /\ Dispatch(h.routes, "GET", "/version") = HVersion

\* C5: with routes.allow_public_write false no request to the public
\* handler reaches the Put handler, while the admin handler's write route
\* and the read routes of both handlers are reachable; with the flag true
\* the public write route is reachable too.
C5_PublicWriteGated ==
    phase = "serving" =>
        /\ ~cfg.AllowPublicWrite =>
              /\ \A m \in Methods, p \in Paths :
                    Dispatch(publicHandler.routes, m, p) # HPut
              /\ last.handler = "public" => ~Contains(last.trace, HPut)
        /\ cfg.AllowPublicWrite =>
              Dispatch(publicHandler.routes, "POST", "/cache") = HPut
        /\ Dispatch(adminHandler.routes, "POST", "/cache") = HPut
        /\ ReadRoutesReachable(publicHandler)
        /\ ReadRoutesReachable(adminHandler)

C5_Witness ==
    /\ ~cfg.AllowPublicWrite
    /\ last.handler = "public"
    /\ IsWrite(last.req)
    /\ last.status = 405
    /\ Cardinality(DOMAIN accepted) = 1

(* ---- C6 ---- *)

RateN == cfg.MaxRequestsPerSecond

Clients == { rlLog[i].client : i \in 1..Len(rlLog) }

\* The rate-limit decisions on client c's requests in the second from t0.
BurstOf(c, t0) ==
    { i \in 1..Len(rlLog) :
        /\ rlLog[i].client = c
        /\ rlLog[i].t >= t0
        /\ rlLog[i].t < t0 + TicksPerSecond }

HasRejection(S) == \E i \in S : ~rlLog[i].ok

\* A rejected request found its own bucket empty: at least a full burst of
\* requests of the same client was let through before it.
RejectedByOwnBurst ==
    \A i \in 1..Len(rlLog) :
        ~rlLog[i].ok =>
            Cardinality({ j \in 1..(i - 1) :
                            rlLog[j].client = rlLog[i].client /\ rlLog[j].ok })
                >= RateN

RejectionBody == last.status = 429 => last.body = RateLimitMessage

\* C6 as stated: with N requests per second, more than N requests of one
\* client key within one second include a rejection (with the fixed body),
\* and no other client key is rejected because of them.
C6_Original ==
    (cfg.RateLimitEnabled /\ RateN >= 1) =>
        /\ \A c \in Clients, t0 \in 0..MaxTime :
              Cardinality(BurstOf(c, t0)) > RateN => HasRejection(BurstOf(c, t0))
        /\ RejectedByOwnBurst
        /\ RejectionBody

\* C6 as amended: for N >= 1, 2N or more requests of one client key within
\* one second include a rejection (with the fixed body); the bucket holds N
\* tokens and is refilled at N per second, so up to 2N - 1 requests may pass
\* within less than a second.  No other client key is rejected because of them.
C6_BurstOfTwiceNRejected ==
    (cfg.RateLimitEnabled /\ RateN >= 1) =>
        /\ \A c \in Clients, t0 \in 0..MaxTime :
              Cardinality(BurstOf(c, t0)) >= 2 * RateN
                  => HasRejection(BurstOf(c, t0))
        /\ RejectedByOwnBurst
        /\ RejectionBody

C6_Witness ==
    /\ cfg.RateLimitEnabled /\ RateN = 2
    /\ \E c \in Clients, d \in Clients :
          /\ c # d
          /\ Cardinality(BurstOf(c, 0)) >= 2 * RateN
          /\ HasRejection(BurstOf(c, 0))
          /\ ~HasRejection(BurstOf(d, 0))
    /\ last.status = 429
    /\ last.body = RateLimitMessage

(* ---- C7 ---- *)

\* C7: with rate_limiter.enabled false the public handler is the wrapped
\* handler itself: no limiter exists, no bucket is ever created, and no
\* request is rejected by rate limiting.
C7_DisabledLimiterIsAbsent ==
    (~cfg.RateLimitEnabled /\ phase = "serving") =>
        /\ publicHandler.mw = <<MwCors, MwRouter>>
        /\ ~publicHandler.limiter.exists
        /\ DOMAIN publicHandler.limiter.buckets = {}
        /\ rlLog = <<>>
        /\ last.status # 429
        /\ ~Contains(last.trace, MwRateLimit)

C7_Witness ==
    /\ ~cfg.RateLimitEnabled
    /\ last.handler = "public"
    /\ last.req.ip = "a"
    /\ last.status = 200
    /\ now > 0

(* ---- C10 ---- *)

RateLimited == last.handler # "none" /\ last.status = 429

\* C10: on the public handler the rate-limit check comes first, before
\* CORS and the router, so a rejected request reaches nothing else: no
\* route handler, no backend layer, no write.  The admin handler has no
\* middleware and never rejects by rate.
C10_RateLimitFirst ==
    /\ RateLimited =>
          /\ last.handler = "public"
          /\ last.trace = <<MwRateLimit>>
          /\ ~last.wrote
    /\ (last.handler = "public" /\ cfg.RateLimitEnabled) =>
          /\ last.trace[1] = MwRateLimit
          /\ Contains(last.trace, MwCors) =>
                Index(last.trace, MwRateLimit) < Index(last.trace, MwCors)
          /\ Contains(last.trace, MwRouter) =>
                Index(last.trace, MwCors) < Index(last.trace, MwRouter)
    /\ phase = "serving" =>
          /\ adminHandler.mw = <<MwRouter>>
          /\ ~adminHandler.limiter.exists
    /\ last.handler = "admin" =>
          (last.status # 429 /\ last.trace[1] = MwRouter)

C10_Witness ==
    /\ RateLimited
    /\ IsWrite(last.req)
    /\ cfg.AllowPublicWrite
    /\ last.trace = <<MwRateLimit>>

(* ---- C11 ---- *)

====
